---- MODULE Spec2Model ----
(***************************************************************************)
(* pgpartitionlib: generation of the SQL text that range-partitions a      *)
(* PostgreSQL table.  A Chunker cuts a domain (integers with a stride, or  *)
(* calendar months) into Chunk records; RangePartitioner._sql_gen renders  *)
(* each chunk through a str.format template.                               *)
(*                                                                         *)
(* Python values are modelled as follows.  A str is a TLA+ string, built   *)
(* with \o; where the code indexes or slices a str, or parses one, it is a *)
(* sequence of one-character strings.  None, '' and [] are the falsy       *)
(* values "" and <<>>.  An exception ends a call with a status other than  *)
(* "ok" and no returned value.                                             *)
(***************************************************************************)
EXTENDS Integers, Sequences, FiniteSets, TLC

\* ------------------------------------------------------------------ bounds
\* integer domains: start ranges over -MaxNeg .. MaxStart, end over -MaxNeg .. MaxEnd
MaxNeg == 1
MaxStart == 2
MaxEnd == 10
\* integer strides range over -MaxNegStride .. MaxStride
MaxNegStride == 1
MaxStride == 3
\* calendar domains: the months FirstMonth of BaseYear .. MaxMonths months later
BaseYear == 2012
FirstMonth == 10
MaxMonths == 5
\* values of the partitioning column tried against the routing function
MaxProbe == 14
\* the largest stride add_month and month_chunk are called with directly, and
\* the years after BaseYear their dates are drawn from
MaxMonthStride == 12
MaxYears == 2

\* ------------------------------------------------------------ text helpers
Digits == <<"0", "1", "2", "3", "4", "5", "6", "7", "8", "9">>

IsDigit(c) == \E d \in 1..10 : Digits[d] = c

DigitVal(c) == (CHOOSE d \in 1..10 : Digits[d] = c) - 1

\* the characters of a str, joined
RECURSIVE Flat(_)
Flat(s) == IF s = <<>> THEN "" ELSE Head(s) \o Flat(Tail(s))

\* n >= 0 as exactly w decimal digits, zero padded (%Y, %m, %d of strftime)
RECURSIVE DigitsOf(_, _)
DigitsOf(n, w) ==
  IF w = 0 THEN <<>> ELSE DigitsOf(n \div 10, w - 1) \o <<Digits[(n % 10) + 1]>>

RECURSIVE NatToStr(_)
NatToStr(n) ==
  IF n < 10 THEN Digits[n + 1] ELSE NatToStr(n \div 10) \o Digits[(n % 10) + 1]

\* str(n) of a Python int, as '{0}'.format(n) renders it
IntToStr(n) == IF n < 0 THEN "-" \o NatToStr(0 - n) ELSE NatToStr(n)

\* the value of a run of decimal digits
RECURSIVE DigitsVal(_)
DigitsVal(s) ==
  IF s = <<>> THEN 0 ELSE 10 * DigitsVal(SubSeq(s, 1, Len(s) - 1)) + DigitVal(s[Len(s)])

\* ------------------------------------------------------------------ dates
\* dt.date(year, month, 1): a ValueError outside the calendar
date(year, month) ==
  IF year \in 1..9999 /\ month \in 1..12
  THEN [ok |-> TRUE, year |-> year, month |-> month]
  ELSE [ok |-> FALSE, year |-> 0, month |-> 0]

\* date < date on first-of-month dates
DateLt(a, b) == a.year < b.year \/ (a.year = b.year /\ a.month < b.month)

\* time.strptime(s, fmt)[:3] for the format '%Y-%m', the only one the inputs
\* below use: %Y is four digits, %m is 1[0-2], 0[1-9] or [1-9], and the whole
\* of s has to be consumed
strptime(s, fmt) ==
  LET n == Len(s)
      yearOk == n >= 6 /\ (\A i \in 1..4 : IsDigit(s[i])) /\ s[5] = "-"
      m == SubSeq(s, 6, n)
      monthOk == /\ n \in {6, 7}
                 /\ \A i \in 1..Len(m) : IsDigit(m[i])
                 /\ DigitsVal(m) \in 1..12
  IN IF fmt = "%Y-%m" /\ yearOk /\ monthOk
     THEN date(DigitsVal(SubSeq(s, 1, 4)), DigitsVal(m))
     ELSE [ok |-> FALSE, year |-> 0, month |-> 0]

\* d.strftime('%Y-%m-%d') of a first-of-month date, as characters
strftime(d) ==
  DigitsOf(d.year, 4) \o <<"-">> \o DigitsOf(d.month, 2) \o <<"-">> \o DigitsOf(1, 2)

\* the rollover test off by one: December itself rolls over, to month 0
add_month_from_december(d, months) ==
  LET month == d.month + months
  IN IF month >= 12
     THEN date(d.year + (months \div 12) + 1, month % 12)
     ELSE date(d.year, month)

add_month(d, months) ==
  LET month == d.month + months
  IN IF month > 12
     THEN date(d.year + (months \div 12) + 1, month % 12)
     ELSE date(d.year, month)

\* month_range as the list of the dates it yields; err when add_month raises
RECURSIVE month_range_from(_, _, _)
month_range_from(item, end, stride) ==
  IF ~DateLt(item, end) THEN [err |-> FALSE, items |-> <<>>]
  ELSE LET next == add_month(item, stride)
       IN IF ~next.ok THEN [err |-> TRUE, items |-> <<item>>]
          ELSE LET rest == month_range_from(next, end, stride)
               IN [err |-> rest.err, items |-> <<item>> \o rest.items]

month_range(start, end, stride) ==
  month_range_from(date(start.year, start.month), end, stride)

\* the (prev, date) pairs of consecutive items
Pairs(items) ==
  [i \in 1..(IF Len(items) = 0 THEN 0 ELSE Len(items) - 1) |-> <<items[i], items[i + 1]>>]

\* the end month is not stepped past: the last chunk stops a month early
month_chunk_exclusive_end(start, end, stride) ==
  LET r == month_range(start, end, stride)
  IN [err |-> r.err, items |-> Pairs(r.items)]

month_chunk(start, end, stride) ==
  LET end1 == add_month(end, 1)
  IN IF ~end1.ok THEN [err |-> TRUE, items |-> <<>>]
     ELSE LET r == month_range(start, end1, stride)
          IN [err |-> r.err, items |-> Pairs(r.items)]

month_chunk_str(start, end, stride, fmt) ==
  LET start_date == strptime(start, fmt)
      end_date == strptime(end, fmt)
  IN IF ~start_date.ok \/ ~end_date.ok THEN [err |-> TRUE, items |-> <<>>]
     ELSE LET r == month_chunk(start_date, end_date, stride)
          IN [err |-> r.err,
              items |-> [i \in 1..Len(r.items) |->
                           <<strftime(r.items[i][1]), strftime(r.items[i][2])>>]]

\* --------------------------------------------------------------- chunkers
Chunk(start, end, suffix, sql_start, sql_end) ==
  [start |-> start, end |-> end, suffix |-> suffix,
   sql_start |-> sql_start, sql_end |-> sql_end]

MonthChunker_iter(self) ==
  LET r == month_chunk_str(self.start, self.end, 1, self.fmt)
  IN [err |-> IF r.err THEN "ValueError" ELSE "",
      items |-> [i \in 1..Len(r.items) |->
                   LET item == r.items[i]
                   IN Chunk(Flat(item[1]), Flat(item[2]),
                            "_" \o Flat(SubSeq(item[1], 1, Len(item[1]) - 3)),
                            "'" \o Flat(item[1]) \o "'",
                            "'" \o Flat(item[2]) \o "'")]]

\* list(xrange(start, end, stride)) for stride # 0
RECURSIVE xrange(_, _, _)
xrange(start, end, stride) ==
  IF (stride > 0 /\ start < end) \/ (stride < 0 /\ start > end)
  THEN <<start>> \o xrange(start + stride, end, stride)
  ELSE <<>>

\* chunks one value too wide: each overlaps the next
gen_chunks_overlapping(start, end, stride) ==
  IF stride = 0 THEN [err |-> "ValueError", items |-> <<>>]
  ELSE LET nums == xrange(start, end, stride)
       IN [err |-> "", items |-> [i \in 1..Len(nums) |-> <<nums[i], nums[i] + stride + 1>>]]

\* chunks of width 1 whatever the stride
gen_chunks_unit_width(start, end, stride) ==
  IF stride = 0 THEN [err |-> "ValueError", items |-> <<>>]
  ELSE LET nums == xrange(start, end, stride)
       IN [err |-> "", items |-> [i \in 1..Len(nums) |-> <<nums[i], nums[i] + 1>>]]

\* xrange() arg 3 must not be zero
gen_chunks(start, end, stride) ==
  IF stride = 0 THEN [err |-> "ValueError", items |-> <<>>]
  ELSE LET nums == xrange(start, end, stride)
       IN [err |-> "", items |-> [i \in 1..Len(nums) |-> <<nums[i], nums[i] + stride>>]]

IntChunker_iter(self) ==
  LET r == gen_chunks(self.start, self.end, self.stride)
  IN [err |-> r.err,
      items |-> [i \in 1..Len(r.items) |->
                   LET prev == r.items[i][1]
                       num == r.items[i][2]
                   IN Chunk(prev, num, "_" \o IntToStr(prev), prev, num)]]

\* iter(self.chunker), run to its end
Chunker_iter(chunker) ==
  IF chunker.class = "IntChunker" THEN IntChunker_iter(chunker)
  ELSE MonthChunker_iter(chunker)

\* what format() writes for a chunk's sql_start / sql_end
PyStr(class, v) == IF class = "IntChunker" THEN IntToStr(v) ELSE v

\* ---------------------------------------------------------- str.format
\* a template is a sequence of tokens: literal text, or a {key} replacement field
Lit(s) == <<"lit", s>>
Key(k) == <<"key", k>>

\* KeyError: a replacement field that the keyword arguments do not hold
FormatOk(tmpl, args) ==
  \A i \in 1..Len(tmpl) : tmpl[i][1] = "key" => tmpl[i][2] \in DOMAIN args

RECURSIVE Format(_, _)
Format(tmpl, args) ==
  IF tmpl = <<>> THEN ""
  ELSE (IF Head(tmpl)[1] = "key" THEN args[Head(tmpl)[2]] ELSE Head(tmpl)[2])
       \o Format(Tail(tmpl), args)

\* sep.join(strs)
RECURSIVE Join(_, _)
Join(sep, strs) ==
  IF strs = <<>> THEN ""
  ELSE IF Len(strs) = 1 THEN strs[1]
  ELSE strs[1] \o sep \o Join(sep, Tail(strs))

\* ------------------------------------------------------- RangePartitioner
\* an item of index_columns_list: a str (one column name) or a list of names
StrItem(name) == [t |-> "str", v |-> <<name>>]
ListItem(names) == [t |-> "list", v |-> names]

RangePartitioner(chunker, table_name, column, index_columns_list) ==
  [chunker |-> chunker, table_name |-> table_name, column |-> column,
   index_columns_list |-> index_columns_list]

Raised(status) ==
  [status |-> status, chunks |-> <<>>, stmt |-> <<>>, subst |-> <<>>]

\* the position marker of chunk i of n (i from 0); None is ""
pos_item_of(i, n, first_item, middle_items, last_item) ==
  IF i = 0 /\ first_item # "" THEN first_item
  ELSE IF i = n - 1 /\ last_item # "" THEN last_item
  ELSE middle_items

\* the index named after the partition table alone, not the group's position
format_args_one_index_name(self, chunks, cols, i, j, first_item, middle_items, last_item, do_index) ==
  LET chunk == chunks[i + 1]
      class == self.chunker.class
      table_name == self.table_name \o chunk.suffix
      pos_item == pos_item_of(i, Len(chunks), first_item, middle_items, last_item)
      base == [column |-> self.column,
               start |-> PyStr(class, chunk.sql_start),
               end |-> PyStr(class, chunk.sql_end),
               master_table_name |-> self.table_name,
               table_name |-> table_name,
               pos_item |-> IF pos_item = "" THEN "None" ELSE pos_item]
  IN IF do_index
     THEN [k \in DOMAIN base \cup {"index_name", "index_cols"} |->
             IF k = "index_name" THEN table_name \o "_index"
             ELSE IF k = "index_cols"
                  THEN Join(",", [c \in 1..Len(cols) |-> cols[c].v[1]])
             ELSE base[k]]
     ELSE base

\* the keyword arguments of template.format for chunk i (from 0) and, with
\* do_index, index-column group j (from 0)
format_args(self, chunks, cols, i, j, first_item, middle_items, last_item, do_index) ==
  LET chunk == chunks[i + 1]
      class == self.chunker.class
      table_name == self.table_name \o chunk.suffix
      pos_item == pos_item_of(i, Len(chunks), first_item, middle_items, last_item)
      base == [column |-> self.column,
               start |-> PyStr(class, chunk.sql_start),
               end |-> PyStr(class, chunk.sql_end),
               master_table_name |-> self.table_name,
               table_name |-> table_name,
               pos_item |-> IF pos_item = "" THEN "None" ELSE pos_item]
  IN IF do_index
     THEN [k \in DOMAIN base \cup {"index_name", "index_cols"} |->
             IF k = "index_name" THEN table_name \o "_" \o IntToStr(j) \o "_index"
             ELSE IF k = "index_cols"
                  THEN Join(",", [c \in 1..Len(cols) |-> cols[c].v[1]])
             ELSE base[k]]
     ELSE base

\* the statements of _sql_gen once list(self.chunker) and cols are known (it:
\* the traversal, n: the number of template.format calls)
sql_gen_stmts(self, it, cols, n, template, start, end, first_item, middle_items, last_item, do_index) ==
  LET startArgs == [master_table_name |-> self.table_name]
      endArgs == [column |-> self.column, master_table_name |-> self.table_name]
      per == IF do_index THEN Len(cols) ELSE 1
      args == [k \in 1..n |->
                 format_args(self, it.items, cols, (k - 1) \div per, (k - 1) % per,
                             first_item, middle_items, last_item, do_index)]
      nhead == IF start # <<>> THEN 1 ELSE 0
      ntail == IF end # <<>> THEN 1 ELSE 0
  IN IF start # <<>> /\ ~FormatOk(start, startArgs) THEN Raised("KeyError")
     ELSE IF it.err # "" THEN Raised(it.err)
     ELSE IF n > 0 /\ do_index /\ \E c \in 1..Len(cols) : cols[c].t # "str"
          THEN Raised("TypeError")
     ELSE IF n > 0 /\ ~FormatOk(template, args[1]) THEN Raised("KeyError")
     ELSE IF end # <<>> /\ ~FormatOk(end, endArgs) THEN Raised("KeyError")
     ELSE [status |-> "ok",
           chunks |-> it.items,
           stmt |-> [k \in 1..nhead |-> Format(start, startArgs)]
                    \o [k \in 1..n |-> Format(template, args[k])]
                    \o [k \in 1..ntail |-> Format(end, endArgs)],
           subst |-> [k \in 1..nhead |-> startArgs] \o args
                     \o [k \in 1..ntail |-> endArgs]]

sql_gen_chunks(self, it, cols, template, start, end, first_item, middle_items, last_item, do_index) ==
  sql_gen_stmts(self, it, cols,
                IF template = <<>> THEN 0
                ELSE IF do_index THEN Len(it.items) * Len(cols) ELSE Len(it.items),
                template, start, end, first_item, middle_items, last_item, do_index)

sql_gen(self, template, start, end, first_item, middle_items, last_item, do_index) ==
  sql_gen_chunks(self, Chunker_iter(self.chunker),
                 IF self.index_columns_list # <<>> THEN self.index_columns_list
                 ELSE <<StrItem(self.column)>>,
                 template, start, end, first_item, middle_items, last_item, do_index)

\* ------------------------------------------------------------- templates
create_ddl_template ==
  <<Lit("CREATE TABLE "), Key("table_name"), Lit(" (\n    CHECK ( "), Key("column"),
    Lit(" >= "), Key("start"), Lit(" AND "), Key("column"), Lit(" < "), Key("end"),
    Lit(" )\n) INHERITS ("), Key("master_table_name"), Lit(");")>>

drop_ddl_template == <<Lit("DROP TABLE "), Key("table_name"), Lit(";")>>

function_code_template ==
  <<Lit("    "), Key("pos_item"), Lit(" ( NEW."), Key("column"), Lit(" >= "),
    Key("start"), Lit(" AND NEW."), Key("column"), Lit(" < "), Key("end"),
    Lit(" ) THEN\n        INSERT INTO "), Key("table_name"), Lit(" VALUES (NEW.*);")>>

function_code_start ==
  <<Lit("CREATE OR REPLACE FUNCTION "), Key("master_table_name"),
    Lit("_insert_function()\nRETURNS TRIGGER AS $$\nBEGIN")>>

function_code_end ==
  <<Lit("    ELSE\n        RAISE EXCEPTION '"), Key("column"),
    Lit(" out of range.  Fix the "), Key("master_table_name"),
    Lit("_insert_function() function!';\n    END IF;\n    RETURN NULL;\nEND;\n$$\nLANGUAGE plpgsql;")>>

trigger_code_start ==
  <<Lit("CREATE TRIGGER insert_"), Key("master_table_name"),
    Lit("_trigger\n    BEFORE INSERT ON "), Key("master_table_name"),
    Lit("\n    FOR EACH ROW EXECUTE PROCEDURE "), Key("master_table_name"),
    Lit("_insert_function();")>>

drop_trigger_code_start ==
  <<Lit("DROP TRIGGER insert_"), Key("master_table_name"), Lit("_trigger ON "),
    Key("master_table_name"), Lit(";")>>

create_idx_ddl_template ==
  <<Lit("CREATE INDEX "), Key("index_name"), Lit(" ON "), Key("table_name"),
    Lit(" ("), Key("index_cols"), Lit(");")>>

drop_idx_ddl_template == <<Lit("DROP INDEX "), Key("index_name"), Lit(";")>>

\* ------------------------------------------------------------ operations
create_ddl(self) == sql_gen(self, create_ddl_template, <<>>, <<>>, "", "", "", FALSE)

drop_ddl(self) == sql_gen(self, drop_ddl_template, <<>>, <<>>, "", "", "", FALSE)

\* no first_item: the first branch is an ELSIF too
function_code_all_elsif(self) ==
  sql_gen(self, function_code_template, function_code_start, function_code_end,
          "", "ELSIF", "", FALSE)

function_code(self) ==
  sql_gen(self, function_code_template, function_code_start, function_code_end,
          "IF", "ELSIF", "", FALSE)

trigger_code(self) == sql_gen(self, <<>>, trigger_code_start, <<>>, "", "", "", FALSE)

drop_trigger_code(self) ==
  sql_gen(self, <<>>, drop_trigger_code_start, <<>>, "", "", "", FALSE)

create_idx_ddl(self) ==
  sql_gen(self, create_idx_ddl_template, <<>>, <<>>, "", "", "", TRUE)

drop_idx_ddl(self) == sql_gen(self, drop_idx_ddl_template, <<>>, <<>>, "", "", "", TRUE)

sql(self, template, start, end) ==
  sql_gen(self, template, start, end, "", "", "", FALSE)


\* ----------------------------------------------------------------- state
VARIABLES
  self,     \* the RangePartitioner: chunker, table_name, column, index_columns_list
  cfg0,     \* the arguments the partitioner was constructed with
  call,     \* the last rendering call: its name and, for sql, its arguments
  status,   \* how the last call ended: "ok", or the exception it raised
  chunks,   \* list(self.chunker) of the last call
  stmt,     \* the statements the last call collected
  subst,    \* the keyword arguments each of them was formatted with
  fn        \* the last call of a module-level month function, and its value

vars == <<self, cfg0, call, status, chunks, stmt, subst, fn>>

\* the text the last call returned: '\n'.join(stmt)
ret == Join("\n", stmt)

\* ---------------------------------------------------------------- inputs
Starts == (0 - MaxNeg)..MaxStart
Ends == (0 - MaxNeg)..MaxEnd
Strides == (0 - MaxNegStride)..MaxStride

IntChunker(start, end, stride) ==
  [class |-> "IntChunker", start |-> start, end |-> end, stride |-> stride]

MonthChunker(start, end, fmt) ==
  [class |-> "MonthChunker", start |-> start, end |-> end, fmt |-> fmt]

\* the month k months after FirstMonth of BaseYear, as [year, month]
MonthNo(k) ==
  LET m == (FirstMonth - 1) + k
  IN [year |-> BaseYear + (m \div 12), month |-> (m % 12) + 1]

\* 'YYYY-MM' month strings, 'YYYY-M' ones (no leading zero), and strings that
\* '%Y-%m' does not parse
MonthInput(d) == DigitsOf(d.year, 4) \o <<"-">> \o DigitsOf(d.month, 2)

ShortMonthInput(d) == DigitsOf(d.year, 4) \o <<"-">> \o DigitsOf(d.month, 1)

GoodMonthStrings ==
  {MonthInput(MonthNo(k)) : k \in 0..MaxMonths}
    \cup {ShortMonthInput(MonthNo(k)) : k \in {j \in 0..MaxMonths : MonthNo(j).month < 10}}

BadMonthStrings ==
  {DigitsOf(BaseYear, 4) \o <<"-", "1", "3">>,
   <<"n", "e", "x", "t", "-", "0", "1">>}

MonthStrings == GoodMonthStrings \cup BadMonthStrings

IntChunkers == {IntChunker(s, e, d) : s \in Starts, e \in Ends, d \in Strides}

MonthChunkers == {MonthChunker(s, e, "%Y-%m") : s \in MonthStrings, e \in MonthStrings}

IndexColumnsLists ==
  {<<>>,
   <<StrItem("a"), StrItem("b")>>,
   <<ListItem(<<"a", "b">>), ListItem(<<"d">>)>>}

\* sql(sql, start, end): the template and the optional preamble and postamble
SqlCall(template, start, end) ==
  [op |-> "sql", template |-> template, start |-> start, end |-> end]

SqlCalls ==
  {SqlCall(<<Lit("VACUUM ANALYZE "), Key("table_name"), Lit(";")>>, <<>>, <<>>),
   SqlCall(<<Lit("VACUUM ANALYZE "), Key("table_name"), Lit(";")>>,
           <<Lit("BEGIN;")>>, <<Lit("COMMIT;")>>),
   SqlCall(<<>>, <<>>, <<>>),
   SqlCall(<<Lit("REINDEX INDEX "), Key("index_name"), Lit(";")>>, <<>>, <<>>)}

Call(op) == [op |-> op, template |-> <<>>, start |-> <<>>, end |-> <<>>]

\* the value a call on partitioner p produces
Render(c, p) ==
  CASE c.op = "create_ddl" -> create_ddl(p)
    [] c.op = "drop_ddl" -> drop_ddl(p)
    [] c.op = "function_code" -> function_code(p)
    [] c.op = "trigger_code" -> trigger_code(p)
    [] c.op = "drop_trigger_code" -> drop_trigger_code(p)
    [] c.op = "create_idx_ddl" -> create_idx_ddl(p)
    [] c.op = "drop_idx_ddl" -> drop_idx_ddl(p)
    [] c.op = "sql" -> sql(p, c.template, c.start, c.end)

\* no month function has been called
NoFn == [op |-> "none", args |-> <<>>, err |-> FALSE, value |-> <<>>]

\* first-of-month dates of BaseYear and the MaxYears years after it, and the
\* strides a caller of add_month and month_chunk passes
Dates == {date(year, month) : year \in BaseYear..(BaseYear + MaxYears), month \in 1..12}
MonthStrides == 1..MaxMonthStride

\* the arguments of a month function, before it is called
FnArgs(start, end, stride) == [op |-> "none", args |-> [start |-> start, end |-> end, stride |-> stride], err |-> FALSE, value |-> <<>>]

\* ---------------------------------------------------------------- actions
Init ==
  /\ \E icl \in IndexColumnsLists :
       \/ \E chunker \in IntChunkers : self = RangePartitioner(chunker, "t", "c", icl)
       \/ \E chunker \in MonthChunkers : self = RangePartitioner(chunker, "t", "c", icl)
  /\ cfg0 = self
  /\ call = Call("none")
  /\ status = "none"
  /\ chunks = <<>>
  /\ stmt = <<>>
  /\ subst = <<>>
  /\ fn = NoFn

\* a call ends: its value (or exception) is recorded, the partitioner is not
\* assigned to
Returns(c, r) ==
  /\ call' = c
  /\ status' = r.status
  /\ chunks' = r.chunks
  /\ stmt' = r.stmt
  /\ subst' = r.subst
  /\ UNCHANGED <<self, cfg0, fn>>

\* a rendering whose traversal moves the chunker's start: a one-shot cursor
CallCreateDdlOneShot ==
  /\ call' = Call("create_ddl")
  /\ LET r == create_ddl(self)
     IN /\ status' = r.status /\ chunks' = r.chunks /\ stmt' = r.stmt
        /\ subst' = r.subst
  /\ self' = [self EXCEPT !.chunker.start = self.chunker.end]
  /\ UNCHANGED <<cfg0, fn>>

CallCreateDdl == Returns(Call("create_ddl"), create_ddl(self))

CallDropDdl == Returns(Call("drop_ddl"), drop_ddl(self))

CallFunctionCode == Returns(Call("function_code"), function_code(self))

CallTriggerCode == Returns(Call("trigger_code"), trigger_code(self))

CallDropTriggerCode == Returns(Call("drop_trigger_code"), drop_trigger_code(self))

CallCreateIdxDdl == Returns(Call("create_idx_ddl"), create_idx_ddl(self))

CallDropIdxDdl == Returns(Call("drop_idx_ddl"), drop_idx_ddl(self))

CallSql == \E c \in SqlCalls : Returns(c, sql(self, c.template, c.start, c.end))

Next ==
  \/ CallCreateDdl
  \/ CallDropDdl
  \/ CallFunctionCode
  \/ CallTriggerCode
  \/ CallDropTriggerCode
  \/ CallCreateIdxDdl
  \/ CallDropIdxDdl
  \/ CallSql

Spec == Init /\ [][Next]_vars

\* ------------------------------------------- the month functions, called
\* directly with a stride: add_month(date, months) and
\* month_chunk(start, end, stride) are module-level functions, and the
\* partitioner classes only ever pass them the stride 1
MonthInit ==
  /\ self = RangePartitioner(IntChunker(0, 1, 1), "t", "c", <<>>)
  /\ cfg0 = self
  /\ call = Call("none")
  /\ status = "none"
  /\ chunks = <<>>
  /\ stmt = <<>>
  /\ subst = <<>>
  /\ \E start \in Dates, end \in Dates, stride \in MonthStrides :
       fn = FnArgs(start, end, stride)

\* add_month(start, stride): the date, or ValueError from dt.date (value.ok
\* FALSE)
CallAddMonth ==
  /\ LET r == add_month(fn.args.start, fn.args.stride)
     IN fn' = [fn EXCEPT !.op = "add_month", !.err = ~r.ok, !.value = r]
  /\ UNCHANGED <<self, cfg0, call, status, chunks, stmt, subst>>

\* list(month_chunk(start, end, stride)): the pairs, or ValueError
CallMonthChunk ==
  /\ LET r == month_chunk(fn.args.start, fn.args.end, fn.args.stride)
     IN fn' = [fn EXCEPT !.op = "month_chunk", !.err = r.err, !.value = r.items]
  /\ UNCHANGED <<self, cfg0, call, status, chunks, stmt, subst>>

MonthNext ==
  \/ CallAddMonth
  \/ CallMonthChunk

MonthSpec == MonthInit /\ [][MonthNext]_vars

\* ---------------------------------------------------------------- claims
IsInt == self.chunker.class = "IntChunker"
IsMonth == self.chunker.class = "MonthChunker"
Called == call.op # "none"

\* the month (months after FirstMonth of BaseYear) that a good month string names
MonthIndex(s) ==
  CHOOSE k \in 0..MaxMonths : s \in {MonthInput(MonthNo(k)), ShortMonthInput(MonthNo(k))}

\* 'YYYY-MM' and 'YYYY-MM-01' of month number k
IsoMonth(k) == Flat(MonthInput(MonthNo(k)))
IsoDay(k) == IsoMonth(k) \o "-01"

GoodMonths == IsMonth /\ self.chunker.start \in GoodMonthStrings
                      /\ self.chunker.end \in GoodMonthStrings

\* C1: for an integer domain with start < end and stride s > 0 the chunks are
\* (start + k*s, start + (k+1)*s) for k = 0 .. n-1, n the number of values
\* start + k*s below end: the first starts at start, each ends where the next
\* starts, each is s wide, and together they hold every v in [start, end).
C1_IntChunks ==
  (status = "ok" /\ IsInt /\ self.chunker.start < self.chunker.end
     /\ self.chunker.stride > 0) =>
    LET s == self.chunker.start
        e == self.chunker.end
        d == self.chunker.stride
        n == Cardinality({k \in 0..(e - s) : s + k * d < e})
    IN /\ Len(chunks) = n
       /\ n >= 1
       /\ chunks[1].start = s
       /\ \A k \in 1..n : /\ chunks[k].start = s + (k - 1) * d
                          /\ chunks[k].end = s + k * d
                          /\ chunks[k].end - chunks[k].start = d
       /\ \A k \in 1..(n - 1) : chunks[k].end = chunks[k + 1].start
       /\ \A v \in s..(e - 1) :
            \E k \in 1..n : chunks[k].start <= v /\ v < chunks[k].end

C1_Witness ==
  /\ status = "ok" /\ call.op = "create_ddl" /\ IsInt
  /\ self.chunker.start = 1 /\ self.chunker.end = 10 /\ self.chunker.stride = 3
  /\ Len(chunks) = 3 /\ chunks[3].start = 7 /\ chunks[3].end = 10

\* C2 as stated: for every non-empty chunk sequence (integer: start < end and
\* stride > 0, whether or not it divides end - start; calendar: start month
\* before end month) the first chunk starts at the requested start and the
\* last chunk ends at the requested end.
C2_ExactCoverage ==
  /\ (status = "ok" /\ chunks # <<>> /\ IsInt
        /\ self.chunker.start < self.chunker.end /\ self.chunker.stride > 0) =>
       /\ chunks[1].start = self.chunker.start
       /\ chunks[Len(chunks)].end = self.chunker.end
  /\ (status = "ok" /\ chunks # <<>> /\ GoodMonths
        /\ MonthIndex(self.chunker.start) < MonthIndex(self.chunker.end)) =>
       /\ chunks[1].start = IsoDay(MonthIndex(self.chunker.start))
       /\ chunks[Len(chunks)].end = IsoDay(MonthIndex(self.chunker.end))

\* C2 amended: the first chunk starts at the requested start; the last chunk
\* ends at the requested end for the calendar variant, and for the integer
\* variant at the first start + k*stride that is not below end, which is the
\* requested end exactly when stride divides end - start.
C2_CoverageUpToStride ==
  /\ (status = "ok" /\ chunks # <<>> /\ IsInt
        /\ self.chunker.start < self.chunker.end /\ self.chunker.stride > 0) =>
       LET s == self.chunker.start
           e == self.chunker.end
           d == self.chunker.stride
           last == chunks[Len(chunks)].end
       IN /\ chunks[1].start = s
          /\ last >= e
          /\ last - d < e
          /\ (last - s) % d = 0
          /\ (last = e) <=> ((e - s) % d = 0)
  /\ (status = "ok" /\ chunks # <<>> /\ GoodMonths
        /\ MonthIndex(self.chunker.start) < MonthIndex(self.chunker.end)) =>
       /\ chunks[1].start = IsoDay(MonthIndex(self.chunker.start))
       /\ chunks[Len(chunks)].end = IsoDay(MonthIndex(self.chunker.end))

C2_Witness ==
  /\ status = "ok" /\ call.op = "drop_ddl" /\ IsInt
  /\ self.chunker.start = 1 /\ self.chunker.end = 10 /\ self.chunker.stride = 2
  /\ Len(chunks) = 5 /\ chunks[5].end = 11

\* ------------------------------------------------- the SQL that is expected
\* one branch of the routing function
BranchText(kw, col, lo, hi, tbl) ==
  "    " \o kw \o " ( NEW." \o col \o " >= " \o lo \o " AND NEW." \o col \o " < "
    \o hi \o " ) THEN\n        INSERT INTO " \o tbl \o " VALUES (NEW.*);"

PreambleText(master) ==
  "CREATE OR REPLACE FUNCTION " \o master \o "_insert_function()\nRETURNS TRIGGER AS $$\nBEGIN"

ElseText(col, master) ==
  "    ELSE\n        RAISE EXCEPTION '" \o col \o " out of range.  Fix the " \o master
    \o "_insert_function() function!';\n    END IF;\n    RETURN NULL;\nEND;\n$$\nLANGUAGE plpgsql;"

CreateTableText(tbl, col, lo, hi, master) ==
  "CREATE TABLE " \o tbl \o " (\n    CHECK ( " \o col \o " >= " \o lo \o " AND " \o col
    \o " < " \o hi \o " )\n) INHERITS (" \o master \o ");"

\* the value PostgreSQL reads from a literal: an integer, or for a quoted
\* first-of-month date the number of its month
SqlIntValue(lit) ==
  CHOOSE n \in (0 - (MaxNeg + MaxNegStride + 1))..(MaxEnd + MaxStart + MaxStride + 1) :
    IntToStr(n) = lit

SqlDateValue(lit) == CHOOSE k \in 0..(MaxMonths + 1) : "'" \o IsoDay(k) \o "'" = lit

SqlValue(lit) == IF IsInt THEN SqlIntValue(lit) ELSE SqlDateValue(lit)

\* values of the partitioning column: integers, or months (any day of them)
Probes == IF IsInt THEN (0 - (MaxNeg + MaxNegStride + 1))..MaxProbe ELSE (0 - 1)..(MaxMonths + 1)

\* the branches of the routing function text as PostgreSQL runs them on value
\* v: the first branch whose condition holds (0: the ELSE branch raises)
Route(v) ==
  LET hit == {i \in 1..(Len(stmt) - 2) :
                SqlValue(subst[i + 1].start) <= v /\ v < SqlValue(subst[i + 1].end)}
  IN IF hit = {} THEN 0 ELSE CHOOSE i \in hit : \A j \in hit : i <= j

\* the chunks whose [sql_start, sql_end) holds v
ChunksHolding(v) ==
  {i \in 1..Len(chunks) :
     LET lo == PyStr(self.chunker.class, chunks[i].sql_start)
         hi == PyStr(self.chunker.class, chunks[i].sql_end)
     IN SqlValue(lo) <= v /\ v < SqlValue(hi)}

\* the text is a well-formed function: preamble, IF, ELSIF ..., ELSE RAISE
WellFormedFunction ==
  LET N == Len(stmt) - 2
  IN /\ N >= 1
     /\ stmt[1] = PreambleText(self.table_name)
     /\ stmt[N + 2] = ElseText(self.column, self.table_name)
     /\ \A i \in 1..N :
          LET a == subst[i + 1]
          IN /\ a.pos_item = (IF i = 1 THEN "IF" ELSE "ELSIF")
             /\ stmt[i + 1] = BranchText(a.pos_item, self.column, a.start, a.end, a.table_name)

\* C3: with N >= 1 chunks the routing function sends a value v to exactly one
\* partition table or raises, never to the master table; the partition is the
\* one chunk with sql_start <= v < sql_end, whose CREATE TABLE has the same
\* CHECK bounds; a value in no chunk raises.
C3_Routing ==
  (call.op = "function_code" /\ status = "ok" /\ chunks # <<>>) =>
    LET N == Len(chunks)
        ddl == create_ddl(self)
    IN /\ Len(stmt) = N + 2
       /\ WellFormedFunction
       /\ \A i \in 1..N :
            /\ subst[i + 1].table_name = self.table_name \o chunks[i].suffix
            /\ subst[i + 1].table_name # self.table_name
            /\ \A j \in 1..N : i # j => subst[i + 1].table_name # subst[j + 1].table_name
       /\ ddl.status = "ok" /\ Len(ddl.stmt) = N
       /\ \A i \in 1..N :
            ddl.stmt[i] = CreateTableText(subst[i + 1].table_name, self.column,
                                          subst[i + 1].start, subst[i + 1].end,
                                          self.table_name)
       /\ \A v \in Probes :
            /\ Cardinality(ChunksHolding(v)) <= 1
            /\ ChunksHolding(v) = {} => Route(v) = 0
            /\ \A i \in ChunksHolding(v) : Route(v) = i

C3_Witness ==
  /\ call.op = "function_code" /\ status = "ok" /\ IsInt
  /\ self.chunker.start = 1 /\ self.chunker.end = 10 /\ self.chunker.stride = 3
  /\ Route(6) = 2 /\ Route(10) = 0 /\ Route(0) = 0
  /\ subst[3].table_name = "t_4"

\* C4: with N >= 1 chunks the function text is the CREATE OR REPLACE FUNCTION
\* preamble, then one branch per chunk in chunk order, the first an IF and the
\* other N-1 (the last chunk's too) ELSIF, then the one ELSE ... RAISE EXCEPTION.
C4_Branches ==
  (call.op = "function_code" /\ status = "ok" /\ chunks # <<>>) =>
    LET N == Len(chunks)
        kw(i) == subst[i + 1].pos_item
    IN /\ Len(stmt) = N + 2
       /\ stmt[1] = PreambleText(self.table_name)
       /\ stmt[N + 2] = ElseText(self.column, self.table_name)
       /\ Cardinality({i \in 1..N : kw(i) = "IF"}) = 1
       /\ Cardinality({i \in 1..N : kw(i) = "ELSIF"}) = N - 1
       /\ kw(1) = "IF"
       /\ \A i \in 1..N :
            stmt[i + 1] = BranchText(kw(i), self.column,
                                     PyStr(self.chunker.class, chunks[i].sql_start),
                                     PyStr(self.chunker.class, chunks[i].sql_end),
                                     self.table_name \o chunks[i].suffix)
       /\ ret = Join("\n", <<PreambleText(self.table_name)>>
                             \o [i \in 1..N |-> stmt[i + 1]]
                             \o <<ElseText(self.column, self.table_name)>>)

C4_Witness ==
  /\ call.op = "function_code" /\ status = "ok" /\ IsMonth
  /\ Len(chunks) = 3
  /\ subst[2].pos_item = "IF" /\ subst[3].pos_item = "ELSIF" /\ subst[4].pos_item = "ELSIF"

\* C5: when start = end there is no chunk, and create_ddl, drop_ddl,
\* function_code, create_idx_ddl, drop_idx_ddl and sql return the empty string.
EmptyDomain ==
  \/ IsInt /\ self.chunker.stride > 0 /\ self.chunker.start = self.chunker.end
  \/ GoodMonths /\ MonthIndex(self.chunker.start) = MonthIndex(self.chunker.end)

C5_EmptyDomain ==
  (status = "ok" /\ EmptyDomain
     /\ call.op \notin {"trigger_code", "drop_trigger_code"}) =>
    chunks = <<>> /\ ret = ""

\* C6: for good start and end months with start <= end the calendar chunker
\* yields one chunk per month from start up to, not including, end: starts are
\* the first days of consecutive months (January of the next year after
\* December), each end is the next start, the last end is the first day of
\* the end month, the suffix is '_YYYY-MM' of the start month, all distinct.
C6_CalendarChunks ==
  (Called /\ GoodMonths
     /\ MonthIndex(self.chunker.start) <= MonthIndex(self.chunker.end)) =>
    LET a == MonthIndex(self.chunker.start)
        b == MonthIndex(self.chunker.end)
    IN /\ status # "ValueError"
       /\ status = "ok" =>
            /\ Len(chunks) = b - a
            /\ \A k \in 1..(b - a) :
                 /\ chunks[k].start = IsoDay(a + k - 1)
                 /\ chunks[k].end = IsoDay(a + k)
                 /\ chunks[k].suffix = "_" \o IsoMonth(a + k - 1)
                 /\ chunks[k].sql_start = "'" \o IsoDay(a + k - 1) \o "'"
                 /\ chunks[k].sql_end = "'" \o IsoDay(a + k) \o "'"
            /\ \A k \in 1..(b - a - 1) : chunks[k].end = chunks[k + 1].start
            /\ \A j, k \in 1..(b - a) : j # k => chunks[j].suffix # chunks[k].suffix
            /\ b > a => chunks[b - a].end = IsoDay(b)

\* the rollover case: a domain that spans December and January
C6_Witness ==
  /\ status = "ok" /\ call.op = "create_ddl" /\ GoodMonths
  /\ Len(chunks) >= 3
  /\ \E k \in 1..(Len(chunks) - 1) :
       /\ chunks[k].suffix = "_" \o NatToStr(BaseYear) \o "-12"
       /\ chunks[k + 1].suffix = "_" \o NatToStr(BaseYear + 1) \o "-01"
       /\ chunks[k].end = NatToStr(BaseYear + 1) \o "-01-01"

\* C7: after any sequence of rendering calls every call returns what the same
\* call returns on a fresh partitioner with the same configuration (the same
\* text, or the same exception), and the chunker's start, end, stride and
\* format and the partitioner's table name, column and index columns are as
\* constructed.
C7_Idempotent ==
  /\ self = cfg0
  /\ Called =>
       LET fresh == Render(call, cfg0)
       IN /\ status = fresh.status
          /\ stmt = fresh.stmt
          /\ chunks = fresh.chunks

\* a second call has returned the text of the first
C7_Witness ==
  /\ call.op = "create_ddl" /\ status = "ok" /\ Len(stmt) = 3 /\ IsInt
  /\ self.chunker.start = 1 /\ self.chunker.end = 10 /\ self.chunker.stride = 3
  /\ stmt[1] = CreateTableText("t_1", "c", "1", "4", "t")

\* the index columns configured: the groups of index_columns_list, by default
\* one group holding the partitioning column
Groups ==
  IF self.index_columns_list = <<>> THEN <<<<self.column>>>>
  ELSE [j \in 1..Len(self.index_columns_list) |-> self.index_columns_list[j].v]

\* C8: create_idx_ddl and drop_idx_ddl emit the same number of statements, the
\* k-th DROP INDEX names the index of the k-th CREATE INDEX, the name for
\* chunk i and group j (from 0) is '{master_table}{suffix_i}_{j}_index', and
\* the names are pairwise distinct.
C8_IndexNames ==
  (call.op = "create_idx_ddl" /\ status = "ok") =>
    LET drop == drop_idx_ddl(self)
        G == Len(Groups)
        name(k) == self.table_name \o chunks[((k - 1) \div G) + 1].suffix
                     \o "_" \o IntToStr((k - 1) % G) \o "_index"
    IN /\ drop.status = "ok"
       /\ Len(drop.stmt) = Len(stmt)
       /\ Len(stmt) = Len(chunks) * G
       /\ \A k \in 1..Len(stmt) :
            /\ subst[k].index_name = name(k)
            /\ drop.subst[k].index_name = subst[k].index_name
            /\ drop.stmt[k] = "DROP INDEX " \o name(k) \o ";"
            /\ stmt[k] = "CREATE INDEX " \o name(k) \o " ON " \o subst[k].table_name
                           \o " (" \o subst[k].index_cols \o ");"
       /\ \A j, k \in 1..Len(stmt) : j # k => name(j) # name(k)

C8_Witness ==
  /\ call.op = "create_idx_ddl" /\ status = "ok"
  /\ Len(self.index_columns_list) = 2 /\ Len(chunks) = 2 /\ Len(stmt) = 4
  /\ subst[1].index_name = "t_0_0_index" /\ subst[2].index_name = "t_0_1_index"
  /\ subst[3].index_name = "t_1_0_index" /\ subst[4].index_name = "t_1_1_index"

\* C9: a rendering call on a chunker with a stride <= 0, or with a start or
\* end string that the date format does not parse, ends in an error and
\* returns no text.
C9_FailFast ==
  (Called /\ (\/ IsInt /\ self.chunker.stride <= 0
              \/ IsMonth /\ (self.chunker.start \in BadMonthStrings
                             \/ self.chunker.end \in BadMonthStrings))) =>
    status # "ok"

\* C10: with G index-column groups and N chunks create_idx_ddl emits N*G
\* CREATE INDEX statements, by chunk and then by group; the one for chunk i
\* and group j is on partition table i and lists the columns of group j, in
\* order, and no others.
C10_IndexPerGroup ==
  (call.op = "create_idx_ddl" /\ IsInt /\ self.chunker.stride > 0) =>
    LET its == IntChunker_iter(self.chunker).items
        N == Len(its)
        G == Len(Groups)
    IN /\ status = "ok"
       /\ Len(stmt) = N * G
       /\ \A i \in 1..N : \A j \in 1..G :
            LET tbl == self.table_name \o its[i].suffix
            IN stmt[(i - 1) * G + j] =
                 "CREATE INDEX " \o tbl \o "_" \o IntToStr(j - 1) \o "_index ON " \o tbl
                   \o " (" \o Join(",", Groups[j]) \o ");"

\* the first of the month k calendar months after the first-of-month date d
MonthsAfter(d, k) ==
  date(d.year + ((d.month + k - 1) \div 12), ((d.month + k - 1) % 12) + 1)

\* C11: for every first-of-month date d and every stride k in 1..12,
\* add_month(d, k) returns a valid date, the first of the month exactly k
\* calendar months after d (year d.year + ((m + k - 1) div 12), month
\* ((m + k - 1) mod 12) + 1); and the chunks month_chunk yields with stride k
\* end exactly k months after they start, each starting where the one before
\* ended, with strictly increasing boundaries.
C11_MonthArithmetic ==
  /\ fn.op = "add_month" =>
       /\ ~fn.err
       /\ fn.value.ok
       /\ fn.value = MonthsAfter(fn.args.start, fn.args.stride)
  /\ (fn.op = "month_chunk" /\ ~fn.err) =>
       \A i \in 1..Len(fn.value) :
         /\ fn.value[i][2] = MonthsAfter(fn.value[i][1], fn.args.stride)
         /\ DateLt(fn.value[i][1], fn.value[i][2])
         /\ i > 1 => fn.value[i][1] = fn.value[i - 1][2]
====
